---- MODULE Spec2Model ----
(***************************************************************************)
(* The train / evaluate / persist loop of 00_Quickstart.ipynb as a state   *)
(* machine.  The notebook's cells run top to bottom; pc is the position in *)
(* that run.  The network keeps the notebook's topology (Linear, ReLU,     *)
(* Linear, ReLU, Linear to 10 classes) with one unit per hidden layer and  *)
(* a one-pixel image; tensors hold integers.  nn.CrossEntropyLoss is taken *)
(* at its zero-temperature limit, max(logits) - logits[y], whose gradient  *)
(* w.r.t. the logits is onehot(argmax) - onehot(y); the learning rate and  *)
(* the 1/len(X) of the batch mean are absorbed in the integer unit of the  *)
(* gradient.  Losses that the notebook prints are exact fractions <<n,d>>. *)
(***************************************************************************)
EXTENDS Integers, Sequences, FiniteSets, TLC

VARIABLES
    pc,             \* position in the notebook's run
    epochs,         \* epochs = 5 in the reference run
    batch_size,     \* batch_size = 64 in the reference run
    training_data,  \* sequence of <<pixel, label>>
    test_data,      \* sequence of <<pixel, label>>
    model,          \* the state_dict of the object bound to the name model
    model0,         \* the state_dict right after NeuralNetwork() was built
    training,       \* nn.Module.training of that object
    grad,           \* the .grad of every parameter (all zero = none accumulated)
    t,              \* loop variable of the epoch loop (epochs started so far)
    batch,          \* enumerate index of the batch loop
    test_it,        \* position of test's iteration over its dataloader
    X,              \* inputs of the current batch
    y,              \* labels of the current batch
    pred,           \* result of model(X): logits and whether autograd recorded them
    loss,           \* result of loss_fn(pred, y) in train
    test_loss,      \* accumulator of test
    correct,        \* accumulator of test
    ret,            \* what the last finished call of train / test returned
    out,            \* everything printed so far
    file,           \* contents of model.pth
    predicted,      \* pred[0].argmax(0) of the prediction cell
    trainCalls,     \* calls of train made so far
    testCalls,      \* calls of test made so far
    steps           \* optimizer.step() calls made in the current call of train

vars == << pc, epochs, batch_size, training_data, test_data, model, model0,
           training, grad, t, batch, test_it, X, y, pred, loss, test_loss, correct,
           ret, out, file, predicted, trainCalls, testCalls, steps >>

----------------------------------------------------------------------------
(* Bounds of the exploration *)
MaxEpochs == 2
MaxBatchSize == 2
MaxTrainSize == 2
MaxTestSize == 3
LongSpan == 3

(* Program constants *)
NumClasses == 10
LogEvery == 100

None == "None"

Classes == 0 .. (NumClasses - 1)

classes == << "T-shirt/top", "Trouser", "Pullover", "Dress", "Coat", "Sandal",
              "Shirt", "Sneaker", "Bag", "Ankle boot" >>

Pixels == {0, 1}

----------------------------------------------------------------------------
(* Small arithmetic *)
Abs(a) == IF a < 0 THEN -a ELSE a

RECURSIVE Gcd(_, _)
Gcd(a, b) == IF b = 0 THEN a ELSE Gcd(b, a % b)

\* a fraction <<n, d>> with d > 0, in lowest terms
Frac(n, d) ==
    LET g == Gcd(Abs(n), d)
    IN  IF g = 0 THEN <<n, d>> ELSE << n \div g, d \div g >>

FracAdd(a, b) == Frac(a[1] * b[2] + b[1] * a[2], a[2] * b[2])

FracEq(a, b) == a[1] * b[2] = b[1] * a[2]

CeilDiv(a, b) == (a + b - 1) \div b

RECURSIVE SumSeq(_)
SumSeq(s) == IF s = << >> THEN 0 ELSE Head(s) + SumSeq(Tail(s))

----------------------------------------------------------------------------
(* DataLoader(dataset, batch_size=batch_size): sequential, drop_last = False *)
NumBatches(data, bs) == CeilDiv(Len(data), bs)

BatchOf(data, bs, k) ==
    LET lo == k * bs + 1
        hi == IF (k + 1) * bs < Len(data) THEN (k + 1) * bs ELSE Len(data)
    IN  SubSeq(data, lo, hi)

Inputs(b) == [i \in 1 .. Len(b) |-> b[i][1]]
Labels(b) == [i \in 1 .. Len(b) |-> b[i][2]]

----------------------------------------------------------------------------
(* NeuralNetwork *)
Keys == << "linear_relu_stack.0.weight", "linear_relu_stack.0.bias",
           "linear_relu_stack.2.weight", "linear_relu_stack.2.bias",
           "linear_relu_stack.4.weight", "linear_relu_stack.4.bias" >>

KeySet == {Keys[i] : i \in 1 .. Len(Keys)}

W0 == Keys[1]
B0 == Keys[2]
W2 == Keys[3]
B2 == Keys[4]
W4 == Keys[5]
B4 == Keys[6]

Shape(k) == IF k \in {W4, B4} THEN NumClasses ELSE 1

ZeroTensor(k) == [i \in 1 .. Shape(k) |-> 0]

ZeroGradOf == [k \in KeySet |-> ZeroTensor(k)]

ReLU(z) == IF z > 0 THEN z ELSE 0

\* pre-activations and activations of one sample
Hidden(p, x) ==
    LET z1 == p[W0][1] * x + p[B0][1]
        h1 == ReLU(z1)
        z2 == p[W2][1] * h1 + p[B2][1]
        h2 == ReLU(z2)
    IN  [z1 |-> z1, h1 |-> h1, z2 |-> z2, h2 |-> h2]

\* forward(x): the logits of one sample, entry c + 1 for class c
forward(p, x) ==
    LET h2 == Hidden(p, x).h2
    IN  [c \in 1 .. NumClasses |-> p[W4][c] * h2 + p[B4][c]]

MaxOf(v) == CHOOSE m \in {v[i] : i \in 1 .. Len(v)} :
                \A i \in 1 .. Len(v) : v[i] <= m

\* tensor.argmax: zero-based index of the first maximal entry
argmax(v) ==
    (CHOOSE i \in 1 .. Len(v) :
        /\ v[i] = MaxOf(v)
        /\ \A j \in 1 .. (i - 1) : v[j] < v[i]) - 1

\* loss of one sample
SampleLoss(logits, label) == MaxOf(logits) - logits[label + 1]

\* loss_fn(pred, y): the mean over the batch
loss_fn(logitss, labels) ==
    Frac(SumSeq([i \in 1 .. Len(logitss) |-> SampleLoss(logitss[i], labels[i])]),
         Len(logitss))

----------------------------------------------------------------------------
(* Autograd and the optimizer *)
TensorAdd(a, b) == [i \in 1 .. Len(a) |-> a[i] + b[i]]

GradAdd(g, h) == [k \in KeySet |-> TensorAdd(g[k], h[k])]

\* d loss / d parameters of one sample
SampleGrad(p, x, label) ==
    LET hid   == Hidden(p, x)
        a     == argmax(forward(p, x)) + 1
        yy    == label + 1
        delta == [c \in 1 .. NumClasses |->
                     (IF c = a THEN 1 ELSE 0) - (IF c = yy THEN 1 ELSE 0)]
        dh2   == p[W4][a] - p[W4][yy]
        dz2   == IF hid.z2 > 0 THEN dh2 ELSE 0
        dz1   == IF hid.z1 > 0 THEN p[W2][1] * dz2 ELSE 0
    IN  [k \in KeySet |->
            CASE k = W4 -> [c \in 1 .. NumClasses |-> delta[c] * hid.h2]
              [] k = B4 -> delta
              [] k = W2 -> << dz2 * hid.h1 >>
              [] k = B2 -> << dz2 >>
              [] k = W0 -> << dz1 * x >>
              [] k = B0 -> << dz1 >>]

RECURSIVE BatchGrad(_, _, _)
BatchGrad(p, xs, ls) ==
    IF xs = << >> THEN ZeroGradOf
    ELSE GradAdd(SampleGrad(p, Head(xs), Head(ls)), BatchGrad(p, Tail(xs), Tail(ls)))

\* torch.optim.SGD(model.parameters(), lr=1e-3).step()
SGDStep(p, g) == [k \in KeySet |-> [i \in 1 .. Len(p[k]) |-> p[k][i] - g[k][i]]]

----------------------------------------------------------------------------
(* torch.save / torch.load / load_state_dict *)
\* the file is the flat list of (key, values) entries, in state_dict order
Serialize(sd) == [i \in 1 .. Len(Keys) |-> << Keys[i], sd[Keys[i]] >>]

Deserialize(blob) ==
    [k \in {blob[i][1] : i \in 1 .. Len(blob)} |->
        (CHOOSE e \in {blob[i] : i \in 1 .. Len(blob)} : e[1] = k)[2]]

\* strict load: every key of the module must be in the file and vice versa
KeysMatch(sd) == DOMAIN sd = KeySet

\* variant: only the weights are copied, the biases keep their fresh values
load_state_dict_weights_only(fresh, sd) ==
    [k \in DOMAIN fresh |-> IF k \in {W0, W2, W4} THEN sd[k] ELSE fresh[k]]

\* copies every entry of sd into the module's parameters
load_state_dict(fresh, sd) == [k \in DOMAIN fresh |-> sd[k]]

----------------------------------------------------------------------------
(* Initial states *)
OneHot(c) == [i \in 1 .. NumClasses |-> IF i = c + 1 THEN 1 ELSE 0]

MakeModel(w, hot) ==
    [k \in KeySet |->
        CASE k = W0 -> << w >>
          [] k = B0 -> << 1 >>
          [] k = W2 -> << 1 >>
          [] k = B2 -> << 0 >>
          [] k = W4 -> OneHot(hot)
          [] k = B4 -> OneHot(NumClasses - 1 - hot)]

\* NeuralNetwork(): the random initialisations explored
InitModels == {MakeModel(w, hot) : w \in {-1, 1}, hot \in {0, NumClasses - 1}}

TrainSample(i) == << i % 2, (7 * i) % NumClasses >>

TrainingSet(n) == [i \in 1 .. n |-> TrainSample(i)]

TestSamples == { <<0, 0>>, <<1, 9>> }

TestSets == UNION {[1 .. n -> TestSamples] : n \in 0 .. MaxTestSize}

\* data set sizes around LogEvery batches, so that the batch index reaches LogEvery
LongSizes(bs) == {LogEvery * bs + d : d \in (0 - LongSpan) .. LongSpan}

InitRest ==
    /\ pc = "epoch_loop"
    /\ model0 = model
    /\ training = TRUE
    /\ grad = ZeroGradOf
    /\ t = 0
    /\ batch = 0
    /\ test_it = 0
    /\ X = << >>
    /\ y = << >>
    /\ pred = None
    /\ loss = None
    /\ test_loss = 0
    /\ correct = 0
    /\ ret = "unset"
    /\ out = << >>
    /\ file = None
    /\ predicted = None
    /\ trainCalls = 0
    /\ testCalls = 0
    /\ steps = 0

InitSmall ==
    /\ epochs \in 0 .. MaxEpochs
    /\ batch_size \in 1 .. MaxBatchSize
    /\ training_data \in {TrainingSet(n) : n \in 0 .. MaxTrainSize}
    /\ test_data \in TestSets
    /\ model \in InitModels
    /\ InitRest

InitLong ==
    /\ epochs = 1
    /\ batch_size \in 1 .. MaxBatchSize
    /\ training_data \in {TrainingSet(n) : n \in LongSizes(batch_size)}
    /\ test_data = << <<1, 9>> >>
    /\ model = MakeModel(1, 0)
    /\ InitRest

Init == InitSmall \/ InitLong

----------------------------------------------------------------------------
(* The epoch loop *)
Size(data) == Len(data)

\* variant: the loop bound is off by one (range(epochs + 1))
EpochLoopOneMore ==
    /\ pc = "epoch_loop"
    /\ IF t <= epochs
       THEN /\ out' = Append(out, << "epoch", t + 1 >>)
            /\ pc' = "train_begin"
       ELSE /\ out' = Append(out, << "done" >>)
            /\ pc' = "save"
    /\ UNCHANGED << epochs, batch_size, training_data, test_data, model, model0,
                    training, grad, t, batch, test_it, X, y, pred, loss,
                    test_loss, correct, ret, file, predicted, trainCalls,
                    testCalls, steps >>

\* variant: the body runs once before the bound is looked at
EpochLoopAtLeastOnce ==
    /\ pc = "epoch_loop"
    /\ IF t < epochs \/ t = 0
       THEN /\ out' = Append(out, << "epoch", t + 1 >>)
            /\ pc' = "train_begin"
       ELSE /\ out' = Append(out, << "done" >>)
            /\ pc' = "save"
    /\ UNCHANGED << epochs, batch_size, training_data, test_data, model, model0,
                    training, grad, t, batch, test_it, X, y, pred, loss,
                    test_loss, correct, ret, file, predicted, trainCalls,
                    testCalls, steps >>

\* for t in range(epochs): print('Epoch ...'); train(...)   /   print('Done!')
EpochLoop ==
    /\ pc = "epoch_loop"
    /\ IF t < epochs
       THEN /\ out' = Append(out, << "epoch", t + 1 >>)
            /\ pc' = "train_begin"
       ELSE /\ out' = Append(out, << "done" >>)
            /\ pc' = "save"
    /\ UNCHANGED << epochs, batch_size, training_data, test_data, model, model0,
                    training, grad, t, batch, test_it, X, y, pred, loss,
                    test_loss, correct, ret, file, predicted, trainCalls,
                    testCalls, steps >>

----------------------------------------------------------------------------
(* train(dataloader, model, loss_fn, optimizer) *)
\* size = len(dataloader.dataset); model.train()
TrainBegin ==
    /\ pc = "train_begin"
    /\ training' = TRUE
    /\ batch' = 0
    /\ steps' = 0
    /\ trainCalls' = trainCalls + 1
    /\ pc' = "train_fetch"
    /\ UNCHANGED << epochs, batch_size, training_data, test_data, model, model0,
                    grad, t, test_it, X, y, pred, loss, test_loss, correct, ret,
                    out, file, predicted, testCalls >>

\* for batch, (X, y) in enumerate(dataloader): ... ; falling off the loop returns None
TrainFetch ==
    /\ pc = "train_fetch"
    /\ IF batch < NumBatches(training_data, batch_size)
       THEN /\ X' = Inputs(BatchOf(training_data, batch_size, batch))
            /\ y' = Labels(BatchOf(training_data, batch_size, batch))
            /\ pc' = "train_forward"
            /\ ret' = ret
       ELSE /\ ret' = None
            /\ pc' = "test_begin"
            /\ UNCHANGED << X, y >>
    /\ UNCHANGED << epochs, batch_size, training_data, test_data, model, model0,
                    training, grad, t, batch, test_it, pred, loss, test_loss,
                    correct, out, file, predicted, trainCalls, testCalls, steps >>

\* pred = model(X)
TrainForward ==
    /\ pc = "train_forward"
    /\ pred' = [logits |-> [i \in 1 .. Len(X) |-> forward(model, X[i])],
                requires_grad |-> TRUE]
    /\ pc' = "train_loss"
    /\ UNCHANGED << test_it, epochs, batch_size, training_data, test_data, model, model0,
                    training, grad, t, batch, X, y, loss, test_loss, correct,
                    ret, out, file, predicted, trainCalls, testCalls, steps >>

\* loss = loss_fn(pred, y)
TrainLoss ==
    /\ pc = "train_loss"
    /\ loss' = loss_fn(pred.logits, y)
    /\ pc' = "train_backward"
    /\ UNCHANGED << test_it, epochs, batch_size, training_data, test_data, model, model0,
                    training, grad, t, batch, X, y, pred, test_loss, correct,
                    ret, out, file, predicted, trainCalls, testCalls, steps >>

\* loss.backward(): adds this batch's gradient to every parameter's .grad
TrainBackward ==
    /\ pc = "train_backward"
    /\ pred.requires_grad
    /\ grad' = GradAdd(grad, BatchGrad(model, X, y))
    /\ pc' = "train_step"
    /\ UNCHANGED << test_it, epochs, batch_size, training_data, test_data, model, model0,
                    training, t, batch, X, y, pred, loss, test_loss, correct,
                    ret, out, file, predicted, trainCalls, testCalls, steps >>

\* optimizer.step()
TrainStep ==
    /\ pc = "train_step"
    /\ model' = SGDStep(model, grad)
    /\ steps' = steps + 1
    /\ pc' = "train_zero"
    /\ UNCHANGED << test_it, epochs, batch_size, training_data, test_data, model0,
                    training, grad, t, batch, X, y, pred, loss, test_loss,
                    correct, ret, out, file, predicted, trainCalls, testCalls >>

\* variant: the gradients are never reset
TrainKeepGrad ==
    /\ pc = "train_zero"
    /\ grad' = grad
    /\ pc' = "train_log"
    /\ UNCHANGED << test_it, epochs, batch_size, training_data, test_data, model,
                    model0, training, t, batch, X, y, pred, loss, test_loss,
                    correct, ret, out, file, predicted, trainCalls, testCalls,
                    steps >>

\* optimizer.zero_grad()
TrainZeroGrad ==
    /\ pc = "train_zero"
    /\ grad' = ZeroGradOf
    /\ pc' = "train_log"
    /\ UNCHANGED << test_it, epochs, batch_size, training_data, test_data, model, model0,
                    training, t, batch, X, y, pred, loss, test_loss, correct,
                    ret, out, file, predicted, trainCalls, testCalls, steps >>

\* variant: the report comes after every 100th batch (batch 99, 199, ...)
ShouldLogAfter(b) == (b + 1) % LogEvery = 0

\* if batch % 100 == 0
ShouldLog(b) == b % LogEvery = 0

\* variant: the configured batch size instead of the length of this batch
CurrentNominal(b, xs) == (b + 1) * batch_size

\* current = (batch + 1) * len(X)
Current(b, xs) == (b + 1) * Len(xs)

\* if batch % 100 == 0: loss, current = ...; print(...)   then the next iteration
TrainLog ==
    /\ pc = "train_log"
    /\ out' = IF ShouldLog(batch)
              THEN Append(out, << "progress", loss, Current(batch, X),
                                  Size(training_data) >>)
              ELSE out
    /\ batch' = batch + 1
    /\ pc' = "train_fetch"
    /\ UNCHANGED << test_it, epochs, batch_size, training_data, test_data, model, model0,
                    training, grad, t, X, y, pred, loss, test_loss, correct,
                    ret, file, predicted, trainCalls, testCalls, steps >>

----------------------------------------------------------------------------
(* test(dataloader, model, loss_fn) *)
\* (pred.argmax(1) == y).type(torch.float).sum().item()
CountCorrect(logitss, labels) ==
    Cardinality({i \in 1 .. Len(logitss) : argmax(logitss[i]) = labels[i]})

\* variant: the summed loss averaged per sample instead of per batch
AvgLossPerSample(total, data, bs) == Frac(total[1], total[2] * Size(data))

\* test_loss /= num_batches
AvgLoss(total, data, bs) == Frac(total[1], total[2] * NumBatches(data, bs))

\* variant: the count divided by the number of batches
AccuracyPerBatch(cnt, data, bs) == Frac(cnt, NumBatches(data, bs))

\* correct /= size
Accuracy(cnt, data, bs) == Frac(cnt, Size(data))

\* size, num_batches = ...; model.eval(); test_loss, correct = 0, 0
TestBegin ==
    /\ pc = "test_begin"
    /\ training' = FALSE
    /\ test_loss' = << 0, 1 >>
    /\ correct' = 0
    /\ test_it' = 0
    /\ testCalls' = testCalls + 1
    /\ pc' = "test_loop"
    /\ UNCHANGED << epochs, batch_size, training_data, test_data, model, model0,
                    grad, t, batch, X, y, pred, loss, ret, out, file, predicted,
                    trainCalls, steps >>

\* variant: the evaluation loop also backpropagates and steps the optimizer
TestBatchStepping ==
    /\ pc = "test_loop"
    /\ test_it < NumBatches(test_data, batch_size)
    /\ LET b  == BatchOf(test_data, batch_size, test_it)
           lg == [i \in 1 .. Len(b) |-> forward(model, Inputs(b)[i])]
       IN  /\ X' = Inputs(b)
           /\ y' = Labels(b)
           /\ pred' = [logits |-> lg, requires_grad |-> TRUE]
           /\ test_loss' = FracAdd(test_loss, loss_fn(lg, Labels(b)))
           /\ correct' = correct + CountCorrect(lg, Labels(b))
           /\ model' = SGDStep(model, BatchGrad(model, Inputs(b), Labels(b)))
    /\ test_it' = test_it + 1
    /\ pc' = "test_loop"
    /\ UNCHANGED << epochs, batch_size, training_data, test_data, model0,
                    training, grad, t, batch, loss, ret, out, file, predicted,
                    trainCalls, testCalls, steps >>

\* one iteration of the loop under torch.no_grad()
TestBatch ==
    /\ pc = "test_loop"
    /\ test_it < NumBatches(test_data, batch_size)
    /\ LET b  == BatchOf(test_data, batch_size, test_it)
           lg == [i \in 1 .. Len(b) |-> forward(model, Inputs(b)[i])]
       IN  /\ X' = Inputs(b)
           /\ y' = Labels(b)
           /\ pred' = [logits |-> lg, requires_grad |-> FALSE]
           /\ test_loss' = FracAdd(test_loss, loss_fn(lg, Labels(b)))
           /\ correct' = correct + CountCorrect(lg, Labels(b))
    /\ test_it' = test_it + 1
    /\ pc' = "test_loop"
    /\ UNCHANGED << epochs, batch_size, training_data, test_data, model, model0,
                    training, grad, t, batch, loss, ret, out, file, predicted,
                    trainCalls, testCalls, steps >>

\* test_loss /= num_batches; correct /= size; print(...); the call returns None.
\* With no batch the first division raises ZeroDivisionError.
TestEnd ==
    /\ pc = "test_loop"
    /\ test_it = NumBatches(test_data, batch_size)
    /\ IF NumBatches(test_data, batch_size) = 0
       THEN /\ pc' = "ZeroDivisionError"
            /\ UNCHANGED << test_loss, correct, out, ret, t >>
       ELSE /\ test_loss' = AvgLoss(test_loss, test_data, batch_size)
            /\ correct' = Accuracy(correct, test_data, batch_size)
            /\ out' = Append(out, << "test", correct', test_loss' >>)
            /\ ret' = None
            /\ t' = t + 1
            /\ pc' = "epoch_loop"
    /\ UNCHANGED << epochs, batch_size, training_data, test_data, model, model0,
                    training, grad, batch, test_it, X, y, pred, loss, file,
                    predicted, trainCalls, testCalls, steps >>

----------------------------------------------------------------------------
(* Saving, loading, predicting *)
\* torch.save(model.state_dict(), 'model.pth'); print(...)
Save ==
    /\ pc = "save"
    /\ file' = Serialize(model)
    /\ out' = Append(out, << "saved" >>)
    /\ pc' = "load"
    /\ UNCHANGED << epochs, batch_size, training_data, test_data, model, model0,
                    training, grad, t, batch, test_it, X, y, pred, loss,
                    test_loss, correct, ret, predicted, trainCalls, testCalls,
                    steps >>

\* model = NeuralNetwork().to(device); model.load_state_dict(torch.load('model.pth'))
Load ==
    /\ pc = "load"
    /\ \E fresh \in InitModels :
          LET sd == Deserialize(file)
          IN  IF KeysMatch(sd)
              THEN /\ model' = load_state_dict(fresh, sd)
                   /\ pc' = "predict"
              ELSE /\ model' = fresh
                   /\ pc' = "RuntimeError"
    /\ training' = TRUE
    /\ grad' = ZeroGradOf
    /\ UNCHANGED << epochs, batch_size, training_data, test_data, model0, t,
                    batch, test_it, X, y, pred, loss, test_loss, correct, ret,
                    out, file, predicted, trainCalls, testCalls, steps >>

\* variant: the index is taken one-based
PredictOneBased ==
    /\ pc = "predict"
    /\ training' = FALSE
    /\ IF Len(test_data) = 0
       THEN /\ pc' = "IndexError: test_data[item]"
            /\ UNCHANGED << pred, predicted, out >>
       ELSE LET x      == test_data[1][1]
                actual == test_data[1][2]
                lg     == << forward(model, x) >>
                idx    == argmax(lg[1]) + 1
            IN  /\ pred' = [logits |-> lg, requires_grad |-> FALSE]
                /\ predicted' = idx
                /\ IF idx + 1 \in DOMAIN classes
                   THEN /\ out' = Append(out, << "predicted", classes[idx + 1],
                                                 classes[actual + 1] >>)
                        /\ pc' = "end"
                   ELSE /\ out' = out
                        /\ pc' = "IndexError: classes[...]"
    /\ UNCHANGED << epochs, batch_size, training_data, test_data, model, model0,
                    grad, t, batch, test_it, X, y, loss, test_loss, correct,
                    ret, file, trainCalls, testCalls, steps >>

\* model.eval(); x, y = test_data[0]; with torch.no_grad(): pred = model(x);
\* predicted, actual = classes[pred[0].argmax(0)], classes[y]; print(...)
Predict ==
    /\ pc = "predict"
    /\ training' = FALSE
    /\ IF Len(test_data) = 0
       THEN /\ pc' = "IndexError: test_data[item]"
            /\ UNCHANGED << pred, predicted, out >>
       ELSE LET x      == test_data[1][1]
                actual == test_data[1][2]
                lg     == << forward(model, x) >>
                idx    == argmax(lg[1])
            IN  /\ pred' = [logits |-> lg, requires_grad |-> FALSE]
                /\ predicted' = idx
                /\ IF idx + 1 \in DOMAIN classes
                   THEN /\ out' = Append(out, << "predicted", classes[idx + 1],
                                                 classes[actual + 1] >>)
                        /\ pc' = "end"
                   ELSE /\ out' = out
                        /\ pc' = "IndexError: classes[...]"
    /\ UNCHANGED << epochs, batch_size, training_data, test_data, model, model0,
                    grad, t, batch, test_it, X, y, loss, test_loss, correct,
                    ret, file, trainCalls, testCalls, steps >>

----------------------------------------------------------------------------
Next ==
    \/ EpochLoop
    \/ TrainBegin
    \/ TrainFetch
    \/ TrainForward
    \/ TrainLoss
    \/ TrainBackward
    \/ TrainStep
    \/ TrainZeroGrad
    \/ TrainLog
    \/ TestBegin
    \/ TestBatch
    \/ TestEnd
    \/ Save
    \/ Load
    \/ Predict

Spec == Init /\ [][Next]_vars

----------------------------------------------------------------------------
(* Helpers of the properties *)
TrainPcs == { "train_fetch", "train_forward", "train_loss", "train_backward",
              "train_step", "train_zero", "train_log" }

TestPcs == { "test_begin", "test_loop" }

AfterLoopPcs == { "save", "load", "predict", "end" }

LogitsOf(p, xs) == [i \in 1 .. Len(xs) |-> forward(p, xs[i])]

\* progress lines printed since the last 'Epoch' header
RECURSIVE ProgressSinceEpoch(_)
ProgressSinceEpoch(s) ==
    IF s = << >> THEN 0
    ELSE LET l == s[Len(s)]
         IN  IF l[1] = "epoch" THEN 0
             ELSE (IF l[1] = "progress" THEN 1 ELSE 0)
                  + ProgressSinceEpoch(SubSeq(s, 1, Len(s) - 1))

\* indices of the samples the dataloader puts in batch k
IndicesOfBatch(data, bs, k) == {i \in 1 .. Len(data) : (i - 1) \div bs = k}

RECURSIVE SumOver(_, _)
SumOver(f, S) ==
    IF S = {} THEN 0
    ELSE LET i == CHOOSE j \in S : TRUE IN f[i] + SumOver(f, S \ {i})

\* the metrics of test, computed sample by sample from the data set
RefCorrect(p, data) ==
    Cardinality({i \in 1 .. Len(data) : argmax(forward(p, data[i][1])) = data[i][2]})

RefAccuracy(p, data) == << RefCorrect(p, data), Len(data) >>

\* sum over the batches of (sum of the sample losses / batch length), over the
\* number of batches; every batch length divides Lcm
RefAvgLoss(p, data, bs) ==
    LET l   == [i \in 1 .. Len(data) |-> SampleLoss(forward(p, data[i][1]), data[i][2])]
        B   == NumBatches(data, bs)
        len == [k \in 0 .. (B - 1) |-> Cardinality(IndicesOfBatch(data, bs, k))]
        Lcm == bs * len[B - 1]
        num == [k \in 0 .. (B - 1) |->
                   SumOver(l, IndicesOfBatch(data, bs, k)) * (Lcm \div len[k])]
    IN  << SumOver(num, 0 .. (B - 1)), Lcm * B >>

----------------------------------------------------------------------------
(* C1: test never changes the model parameters: every step taken inside a  *)
(* call of test, the first call or a later one between two calls of train, *)
(* leaves every parameter value as it was.                                 *)
C1_TestKeepsParameters == [][(pc \in TestPcs) => (model' = model)]_vars

\* test is running for the second time, on a model that training has changed,
\* and has already evaluated a batch
C1_Witness ==
    /\ pc = "test_loop"
    /\ testCalls = 2
    /\ test_it >= 1
    /\ model # model0

(* C2: load after save restores the trained model: the parameter mapping   *)
(* held by the file and the mapping of the restored model equal the        *)
(* trained model's mapping, key for key and value for value, whatever the  *)
(* fresh model's initial parameters were, and the restored model predicts  *)
(* the same class as the trained model for every input.                    *)
C2_SaveLoadRoundTrip ==
    [][(pc = "load") =>
          /\ pc' = "predict"
          /\ Deserialize(file) = model
          /\ DOMAIN model' = DOMAIN model
          /\ \A k \in DOMAIN model : model'[k] = model[k]
          /\ \A x \in Pixels :
                argmax(forward(model', x)) = argmax(forward(model, x))]_vars

\* the restored model holds trained parameters that differ from every fresh model
C2_Witness ==
    /\ pc = "predict"
    /\ t >= 1
    /\ model # model0
    /\ model \notin InitModels
    /\ Deserialize(file) = model

(* C3: the epoch loop makes exactly epochs calls of train and of test,     *)
(* alternating and starting with train; test of an epoch starts only when  *)
(* train of that epoch has stepped through all its batches; once the loop  *)
(* is left no further call happens.                                        *)
C3_EpochLoopAlternates ==
    /\ t <= epochs
    /\ pc \in {"epoch_loop", "train_begin"} => trainCalls = t /\ testCalls = t
    /\ pc = "train_begin" => t < epochs
    /\ pc \in TrainPcs => trainCalls = t + 1 /\ testCalls = t
    /\ pc = "test_begin" =>
          /\ trainCalls = t + 1 /\ testCalls = t
          /\ batch = NumBatches(training_data, batch_size)
          /\ steps = NumBatches(training_data, batch_size)
    /\ pc = "test_loop" =>
          /\ trainCalls = t + 1 /\ testCalls = t + 1
          /\ steps = NumBatches(training_data, batch_size)
    /\ pc \in AfterLoopPcs =>
          /\ t = epochs /\ trainCalls = epochs /\ testCalls = epochs
          /\ \E i \in 1 .. Len(out) :
                /\ out[i] = << "done" >>
                /\ \A j \in (i + 1) .. Len(out) : out[j][1] \notin {"epoch", "test", "progress"}

\* two full epochs were run and the loop is left
C3_Witness ==
    /\ pc = "save"
    /\ epochs = 2
    /\ trainCalls = 2
    /\ testCalls = 2
    /\ Len(training_data) > batch_size

(* C4 as stated: when test has finished, its caller holds the pair         *)
(* (average loss, accuracy) as the call's return value.                    *)
C4_ReturnsPair ==
    (pc = "epoch_loop" /\ testCalls >= 1) =>
        /\ ret # None
        /\ FracEq(ret[1], RefAvgLoss(model, test_data, batch_size))
        /\ FracEq(ret[2], RefAccuracy(model, test_data))

(* C4 amended: when test has finished it has printed the pair and returned *)
(* None: the printed average loss is the sum of the per-batch losses over  *)
(* the number of batches, the printed accuracy is the number of samples    *)
(* whose first top-scoring class equals the label over the data set size.  *)
C4_PrintsMetrics ==
    (pc = "epoch_loop" /\ testCalls >= 1) =>
        /\ ret = None
        /\ out[Len(out)][1] = "test"
        /\ FracEq(out[Len(out)][3], RefAvgLoss(model, test_data, batch_size))
        /\ FracEq(out[Len(out)][2], RefAccuracy(model, test_data))
        /\ test_loss = out[Len(out)][3]
        /\ correct = out[Len(out)][2]

\* test finished on a data set whose last batch is shorter, with a loss that
\* differs from the per-sample mean
C4_Witness ==
    /\ pc = "epoch_loop"
    /\ testCalls >= 1
    /\ Len(test_data) % batch_size # 0
    /\ Len(test_data) > batch_size
    /\ out[Len(out)][3][1] > 0
    /\ ~ FracEq(out[Len(out)][3],
                AvgLossPerSample(<< out[Len(out)][3][1] * NumBatches(test_data, batch_size),
                                    out[Len(out)][3][2] >>, test_data, batch_size))

(* C5: every accuracy that test prints lies in [0, 1] and every average     *)
(* loss it prints is non-negative; while test runs, the count of correct   *)
(* predictions lies between 0 and the number of samples evaluated so far,  *)
(* hence between 0 and the data set size when it is divided by that size.  *)
C5_MetricsInRange ==
    /\ \A i \in 1 .. Len(out) :
          out[i][1] = "test" =>
             /\ out[i][2][2] > 0
             /\ 0 <= out[i][2][1]
             /\ out[i][2][1] <= out[i][2][2]
             /\ out[i][3][2] > 0
             /\ out[i][3][1] >= 0
    /\ pc = "test_loop" =>
          /\ 0 <= correct
          /\ correct <= Cardinality({i \in 1 .. Len(test_data) :
                                        (i - 1) \div batch_size < test_it})
          /\ correct <= Len(test_data)
          /\ test_loss[1] >= 0

\* an accuracy strictly between 0 and 1 was printed for a data set whose last
\* batch is shorter than the others
C5_Witness ==
    /\ pc = "epoch_loop"
    /\ testCalls >= 1
    /\ Len(test_data) > batch_size
    /\ Len(test_data) % batch_size # 0
    /\ out[Len(out)][2][1] > 0
    /\ out[Len(out)][2][1] < out[Len(out)][2][2]
    /\ out[Len(out)][3][1] > 0

(* C6: with epochs = 0 the loop body never runs: when the loop is left     *)
(* neither train nor test was called, no optimizer step was made, nothing  *)
(* but 'Done!' was printed and every parameter has its initial value.      *)
C6_ZeroEpochsKeepParameters ==
    (epochs = 0 /\ pc \in {"save", "load"}) =>
        /\ model = model0
        /\ trainCalls = 0
        /\ testCalls = 0
        /\ steps = 0
        /\ grad = ZeroGradOf
        /\ out[1] = << "done" >>
        /\ \A i \in 1 .. Len(out) : out[i][1] \notin {"epoch", "progress", "test"}

\* the loop was left with epochs = 0 although there is data to train on
C6_Witness ==
    /\ epochs = 0
    /\ pc = "save"
    /\ Len(training_data) > 0
    /\ Len(test_data) > 0
    /\ model = model0

(* C7: the prediction cell yields a class index in 0 .. 9, so the lookup   *)
(* into the 10 class names is in bounds, and it runs the model in          *)
(* evaluation mode without recording gradients.                            *)
C7_PredictedIndexInRange ==
    /\ pc # "IndexError: classes[...]"
    /\ pc = "end" =>
          /\ predicted \in Classes
          /\ predicted + 1 \in DOMAIN classes
          /\ Len(classes) = NumClasses
          /\ training = FALSE
          /\ pred.requires_grad = FALSE
          /\ grad = ZeroGradOf
          /\ out[Len(out)] = << "predicted", classes[predicted + 1],
                                classes[test_data[1][2] + 1] >>

\* a trained and restored model predicted the last class
C7_Witness ==
    /\ pc = "end"
    /\ predicted = NumClasses - 1
    /\ t >= 1
    /\ model # model0

(* C8: train takes the batches in the dataloader's order and does, per     *)
(* batch, forward, loss, backward, one optimizer step, gradient reset: the *)
(* steps made equal the batches done, the gradients are zero whenever      *)
(* backward starts, and the step uses the gradient of the current batch    *)
(* alone, in every epoch.                                                  *)
C8_TrainStepOrder ==
    /\ pc \in (TrainPcs \ {"train_fetch"}) =>
          /\ batch < NumBatches(training_data, batch_size)
          /\ X = Inputs(BatchOf(training_data, batch_size, batch))
          /\ y = Labels(BatchOf(training_data, batch_size, batch))
    /\ pc \in {"train_fetch", "train_forward", "train_loss", "train_backward",
               "train_step"} => steps = batch
    /\ pc \in {"train_zero", "train_log"} => steps = batch + 1
    /\ pc = "test_begin" => steps = NumBatches(training_data, batch_size)
    /\ pc \in {"train_fetch", "train_forward", "train_loss", "train_backward",
               "train_log", "test_begin"} => grad = ZeroGradOf
    /\ pc \in {"train_loss", "train_backward", "train_step"} =>
          /\ pred.requires_grad
          /\ pred.logits = LogitsOf(model, X)
    /\ pc \in {"train_backward", "train_step"} => loss = loss_fn(LogitsOf(model, X), y)
    /\ pc = "train_step" => grad = BatchGrad(model, X, y)

\* backward is about to run for the first batch of the second epoch, after
\* earlier batches left a non-zero gradient behind them
C8_Witness ==
    /\ pc = "train_backward"
    /\ t = 1
    /\ batch = 0
    /\ model # model0
    /\ BatchGrad(model, X, y) # ZeroGradOf
    /\ NumBatches(training_data, batch_size) >= 2

(* C9: within one call of train a progress line is printed for a batch     *)
(* exactly when its zero-based index is a multiple of 100, in the step     *)
(* that follows the batch's optimizer step and gradient reset: after b     *)
(* batches ceil(b / 100) lines were printed, ceil(B / 100) for the call.   *)
C9_ProgressEvery100 ==
    /\ pc \in TrainPcs => ProgressSinceEpoch(out) = CeilDiv(batch, LogEvery)
    /\ pc = "train_log" => steps = batch + 1
    /\ pc = "test_begin" =>
          ProgressSinceEpoch(out) =
              CeilDiv(NumBatches(training_data, batch_size), LogEvery)

\* a call of train over 101 batches has ended with two progress lines
C9_Witness ==
    /\ pc = "test_begin"
    /\ NumBatches(training_data, batch_size) = LogEvery + 1
    /\ ProgressSinceEpoch(out) = 2

(* C10: in every progress line, current = (batch + 1) * len(X) is at most  *)
(* size, also when the reporting batch is a shorter last batch; when the   *)
(* reporting batch is full, current is the number of samples this call of  *)
(* train has processed.                                                    *)
C10_CurrentAtMostSize ==
    /\ \A i \in 1 .. Len(out) :
          out[i][1] = "progress" =>
             /\ out[i][4] = Len(training_data)
             /\ out[i][3] >= 1
             /\ out[i][3] <= out[i][4]
    /\ (/\ pc = "train_fetch"
        /\ batch >= 1
        /\ (batch - 1) % LogEvery = 0
        /\ Len(X) = batch_size) =>
          /\ out[Len(out)][1] = "progress"
          /\ out[Len(out)][3] =
                Cardinality({i \in 1 .. Len(training_data) :
                                (i - 1) \div batch_size <= batch - 1})

\* batch 100 was a shorter last batch and was reported
C10_Witness ==
    /\ pc = "train_fetch"
    /\ batch = LogEvery + 1
    /\ Len(X) < batch_size
    /\ out[Len(out)][1] = "progress"
    /\ out[Len(out)][3] < out[Len(out)][4]

====
